---- MODULE Spec2Model ----
\* Model of config.rs: the configuration loader of the benchmark toolset.
\* Strings are sequences of one-character strings, so that to_lowercase,
\* push('-'), push_str and format! are computed rather than assumed.
EXTENDS Naturals, Integers, Sequences, FiniteSets, TLC

VARIABLES disk, pc, call, contents, config, result, filt, tag

vars == <<disk, pc, call, contents, config, result, filt, tag>>

\* ---------------------------------------------------------------- bounds

\* Longest path handed to get_language_by_config_file, in components.
MaxPathLen == 3

\* Most top-level blocks other than "framework" a document holds.
MaxBlocks == 2

\* ---------------------------------------------------------------- values

\* Option<T>.
None == [some |-> FALSE]

Some(v) == [some |-> TRUE, val |-> v]

\* str::to_lowercase, on the letters the model's names use.
LowerChar(c) ==
    CASE c = "G" -> "g"
      [] c = "J" -> "j"
      [] c = "P" -> "p"
      [] OTHER -> c

ToLowercase(s) == [i \in 1..Len(s) |-> LowerChar(s[i])]

\* Names used for frameworks, directories and block keys.
gem == <<"g", "e", "m">>

Gem == <<"G", "e", "m">>

Java == <<"J", "a", "v">>

cfg == <<"c", "f", "g">>

FrameworkKey == <<"f", "r", "a", "m", "e", "w", "o", "r", "k">>

MainKey == <<"m", "a", "i", "n">>

pg == <<"p", "g">>

Pg == <<"P", "g">>

\* ---------------------------------------------------------------- paths

\* A path component: a named one (Component::Normal) or ".." / a leading "."
\* (Component::ParentDir, Component::CurDir), which has no file name.
Normal(n) == [kind |-> "normal", name |-> n]

DotDot == [kind |-> "dotdot"]

Components == {Normal(gem), Normal(Gem), Normal(Java), Normal(cfg), DotDot}

\* A PathBuf: absolute (rooted at "/") or relative, then its components.
Paths ==
    UNION {[abs : BOOLEAN, comps : [1..n -> Components]] : n \in 0..MaxPathLen}

\* Path::ancestors: the path itself, then each parent, down to "/" or "".
Ancestors(file) ==
    [i \in 1..(Len(file.comps) + 1) |->
        [abs |-> file.abs,
         comps |-> SubSeq(file.comps, 1, Len(file.comps) + 1 - i)]]

\* Path::file_name: None for "/", "" and a path ending in "..".
FileName(p) ==
    IF p.comps = <<>> THEN None
    ELSE IF p.comps[Len(p.comps)].kind = "normal"
         THEN Some(p.comps[Len(p.comps)].name)
         ELSE None

\* ---------------------------------------------------------------- results

Ok(v) == [outcome |-> "Ok", val |-> v]

Err(e) == [outcome |-> "Err", err |-> e]

\* A panic: unwrap() on None aborts the call.
Panic == [outcome |-> "Panic"]

LanguageNotFoundError(name, file) ==
    [kind |-> "LanguageNotFoundError", framework |-> name, file |-> file]

InvalidConfigError(file) ==
    [kind |-> "InvalidConfigError", file |-> file]

\* A failed std::fs::read_to_string, propagated by `?`.
IoError == [kind |-> "IoError"]

\* ---------------------------------------------------------------- language

\* Named for Framework.
FrameworkGetName(framework) == framework.name

\* The loop of get_language_by_config_file from segment i on; `next` is the
\* flag of the code.  Yields the language (an Option) or a panic.
RECURSIVE LanguageWalk(_, _, _, _)
LanguageWalk(framework, anc, i, next) ==
    IF i > Len(anc) THEN Ok(None)
    ELSE IF next
         THEN IF FileName(anc[i]).some
              THEN Ok(Some(FileName(anc[i]).val))
              ELSE Panic
         ELSE IF /\ FileName(anc[i]).some
                 /\ ToLowercase(FileName(anc[i]).val)
                        = ToLowercase(FrameworkGetName(framework))
              THEN LanguageWalk(framework, anc, i + 1, TRUE)
              ELSE LanguageWalk(framework, anc, i + 1, FALSE)

\* Variant: the language is returned lowercased, like the framework name.
get_language_Lowercased(framework, file) ==
    LET language == LanguageWalk(framework, Ancestors(file), 1, FALSE)
    IN  IF language.outcome = "Panic" THEN Panic
        ELSE IF ~language.val.some
             THEN Err(LanguageNotFoundError(
                        ToLowercase(FrameworkGetName(framework)), file))
             ELSE Ok(ToLowercase(language.val.val))

\* Variant: a walk that finds nothing yields an empty language, not an error.
get_language_NoError(framework, file) ==
    LET language == LanguageWalk(framework, Ancestors(file), 1, FALSE)
    IN  IF language.outcome = "Panic" THEN Panic
        ELSE IF ~language.val.some
             THEN Ok(<<>>)
             ELSE Ok(language.val.val)

get_language_by_config_file(framework, file) ==
    LET language == LanguageWalk(framework, Ancestors(file), 1, FALSE)
    IN  IF language.outcome = "Panic" THEN Panic
        ELSE IF ~language.val.some
             THEN Err(LanguageNotFoundError(
                        ToLowercase(FrameworkGetName(framework)), file))
             ELSE Ok(language.val.val)

\* ---------------------------------------------------------------- documents

\* urls maps a route type to a URL path.
UrlsBoth == [k \in {"json", "plaintext"} |->
                IF k = "json" THEN "/json" ELSE "/plaintext"]

UrlsJson == [k \in {"json"} |-> "/json"]

\* A top-level block of the document as written: each field present or not.
BaseBlock ==
    [name |-> None, urls |-> Some(UrlsBoth), approach |-> Some("Realistic"),
     classification |-> Some("Fullstack"), orm |-> Some("Micro"),
     platform |-> Some("Servlet"), webserver |-> Some("Resin"),
     os |-> Some("Linux"), database_os |-> None, database |-> None,
     versus |-> Some("servlet"), tags |-> None, dockerfile |-> None]

BlockSamples ==
    {BaseBlock,
     [BaseBlock EXCEPT !.name = Some(<<"x">>)],
     [BaseBlock EXCEPT !.urls = Some(UrlsJson), !.database = Some("Postgres"),
                       !.dockerfile = Some("pg.dockerfile")],
     [BaseBlock EXCEPT !.urls = None],
     [BaseBlock EXCEPT !.versus = None, !.name = Some(gem)]}

\* The [framework] block as written.
FrameworkSamples ==
    {[name |-> Some(Gem), authors |-> Some(<<"ann">>), github |-> Some("gh/gem")],
     [name |-> Some(gem), authors |-> None, github |-> None],
     [name |-> Some(Java), authors |-> None, github |-> Some("gh/java")],
     [name |-> None, authors |-> Some(<<"ann">>), github |-> None]}

KeyPool == {MainKey, pg, Pg}

\* A document: its [framework] block, if any, and its other top-level blocks.
Docs ==
    {[framework |-> f, blocks |-> b] :
        f \in {None} \cup {Some(x) : x \in FrameworkSamples},
        b \in UNION {[K -> BlockSamples] :
                        K \in {S \in SUBSET KeyPool : Cardinality(S) <= MaxBlocks}}}

\* What the disk holds at the config file's path when there is no file.
NoFile == [missing |-> TRUE]

\* The paths the parse operations are called with.
FilePaths ==
    {[abs |-> TRUE, comps |-> <<Normal(Java), Normal(gem), Normal(cfg)>>],
     [abs |-> FALSE, comps |-> <<Normal(gem), Normal(cfg)>>]}

\* ---------------------------------------------------------------- parsing

RequiredTestFields ==
    {"urls", "approach", "classification", "platform", "webserver", "os", "versus"}

\* serde's derived Deserialize for Test: a missing required field is an
\* error, a missing Option field is None.
DeserializeTest(block) ==
    IF \E f \in RequiredTestFields : ~block[f].some
    THEN Err("missing field")
    ELSE Ok([name |-> block.name, urls |-> block.urls.val,
             approach |-> block.approach.val,
             classification |-> block.classification.val,
             orm |-> block.orm, platform |-> block.platform.val,
             webserver |-> block.webserver.val, os |-> block.os.val,
             database_os |-> block.database_os, database |-> block.database,
             versus |-> block.versus.val, tags |-> block.tags,
             dockerfile |-> block.dockerfile])

\* serde's derived Deserialize for Framework.
DeserializeFramework(fb) ==
    IF ~fb.name.some THEN Err("missing field")
    ELSE Ok([name |-> fb.name.val, authors |-> fb.authors, github |-> fb.github])

\* Variant: a Config without the `main` field.
DeserializeConfig_NoMain(doc) ==
    IF ~doc.framework.some
    THEN Err("missing field")
    ELSE LET f == DeserializeFramework(doc.framework.val)
         IN  IF f.outcome = "Err"
             THEN Err("missing field")
             ELSE Ok([framework |-> f.val])

\* serde's derived Deserialize for Config: `framework` and `main` are both
\* required and must deserialize; other keys are ignored.
DeserializeConfig(doc) ==
    IF \/ ~doc.framework.some
       \/ MainKey \notin DOMAIN doc.blocks
    THEN Err("missing field")
    ELSE LET f == DeserializeFramework(doc.framework.val)
             m == DeserializeTest(doc.blocks[MainKey])
         IN  IF f.outcome = "Err" \/ m.outcome = "Err"
             THEN Err("missing field")
             ELSE Ok([framework |-> f.val, main |-> m.val])

\* parse_config, reading `onDisk` at `file`.
parse_config(file, onDisk) ==
    IF onDisk = NoFile THEN Err(IoError)
    ELSE LET c == DeserializeConfig(onDisk)
         IN  IF c.outcome = "Ok" THEN Ok(c.val)
             ELSE Err(InvalidConfigError(file))

\* Variant: the framework's name is normalised to lowercase on the way out.
get_framework_Lowercased(file, onDisk) ==
    LET c == parse_config(file, onDisk)
    IN  IF c.outcome = "Err" THEN c
        ELSE Ok([c.val.framework EXCEPT !.name = ToLowercase(@)])

get_framework_by_config_file(file, onDisk) ==
    LET c == parse_config(file, onDisk)
    IN  IF c.outcome = "Err" THEN c ELSE Ok(c.val.framework)

\* contents.parse::<Value>().as_table(): the top-level keys of the document.
TableKeys(doc) ==
    DOMAIN doc.blocks \cup (IF doc.framework.some THEN {FrameworkKey} ELSE {})

\* The orders in which table.keys() may enumerate the keys.
KeyOrders(doc) ==
    {o \in [1..Cardinality(TableKeys(doc)) -> TableKeys(doc)] :
        \A i, j \in DOMAIN o : i # j => o[i] # o[j]}

\* Variant: the key is lowercased along with the framework name.
TestName_LowercasedKey(cfgv, key) ==
    IF key # MainKey
    THEN ToLowercase(cfgv.framework.name \o <<"-">> \o key)
    ELSE ToLowercase(cfgv.framework.name)

\* The name the loop gives the test of block `key`.
TestName(cfgv, key) ==
    IF key # MainKey
    THEN ToLowercase(cfgv.framework.name) \o <<"-">> \o key
    ELSE ToLowercase(cfgv.framework.name)

\* Variant: a block that does not deserialize is skipped.
RECURSIVE TestsLoop_SkipBad(_, _, _, _, _, _)
TestsLoop_SkipBad(file, cfgv, doc, order, i, tests) ==
    IF i > Len(order) THEN Ok(tests)
    ELSE IF order[i] = FrameworkKey
         THEN TestsLoop_SkipBad(file, cfgv, doc, order, i + 1, tests)
         ELSE LET t == DeserializeTest(doc.blocks[order[i]])
              IN  IF t.outcome = "Ok"
                  THEN TestsLoop_SkipBad(file, cfgv, doc, order, i + 1,
                           Append(tests,
                               [t.val EXCEPT
                                   !.name = Some(TestName(cfgv, order[i]))]))
                  ELSE TestsLoop_SkipBad(file, cfgv, doc, order, i + 1, tests)

\* Variant: the deserialized test is pushed as it is, its name not set.
RECURSIVE TestsLoop_NameNotSet(_, _, _, _, _, _)
TestsLoop_NameNotSet(file, cfgv, doc, order, i, tests) ==
    IF i > Len(order) THEN Ok(tests)
    ELSE IF order[i] = FrameworkKey
         THEN TestsLoop_NameNotSet(file, cfgv, doc, order, i + 1, tests)
         ELSE LET t == DeserializeTest(doc.blocks[order[i]])
              IN  IF t.outcome = "Ok"
                  THEN TestsLoop_NameNotSet(file, cfgv, doc, order, i + 1,
                           Append(tests, t.val))
                  ELSE Err(InvalidConfigError(file))

\* The loop over table.keys() from position i on, `tests` built so far.
RECURSIVE TestsLoop(_, _, _, _, _, _)
TestsLoop(file, cfgv, doc, order, i, tests) ==
    IF i > Len(order) THEN Ok(tests)
    ELSE IF order[i] = FrameworkKey
         THEN TestsLoop(file, cfgv, doc, order, i + 1, tests)
         ELSE LET t == DeserializeTest(doc.blocks[order[i]])
              IN  IF t.outcome = "Ok"
                  THEN TestsLoop(file, cfgv, doc, order, i + 1,
                           Append(tests,
                               [t.val EXCEPT
                                   !.name = Some(TestName(cfgv, order[i]))]))
                  ELSE Err(InvalidConfigError(file))

\* ---------------------------------------------------------------- Test

\* Named for Test: unwrap() of the name.
TestGetName(test) == IF test.name.some THEN Ok(test.name.val) ELSE Panic

BwTestPrefix == <<"b", "w", ".", "t", "e", "s", "t", ".">>

get_tag(test) ==
    LET n == TestGetName(test)
    IN  IF n.outcome = "Panic" THEN Panic ELSE Ok(BwTestPrefix \o n.val)

\* Variant: retain keeps the entries that do not match.
specify_test_type_Inverted(test, test_type) ==
    IF test_type.some
    THEN [test EXCEPT !.urls =
            [k \in {key \in DOMAIN test.urls : key # test_type.val} |->
                test.urls[k]]]
    ELSE test

\* urls.retain(|key, _| key == test_type) when a test type is given.
specify_test_type(test, test_type) ==
    IF test_type.some
    THEN [test EXCEPT !.urls =
            [k \in {key \in DOMAIN test.urls : key = test_type.val} |->
                test.urls[k]]]
    ELSE test

TestTypes == {None, Some("json"), Some("plaintext"), Some("db")}

\* ---------------------------------------------------------------- state

\* Frameworks handed to get_language_by_config_file.
Frameworks ==
    {DeserializeFramework(fb).val : fb \in {x \in FrameworkSamples : x.name.some}}

NoCall == [op |-> "none"]

Idle ==
    /\ pc = "idle"
    /\ call = NoCall
    /\ contents = None
    /\ config = None
    /\ result = None
    /\ filt = None
    /\ tag = None

\* The state before any call: the disk holds some document, or no file.
Init ==
    /\ disk \in Docs \cup {NoFile}
    /\ Idle

\* The file is written while no call is under way.
WriteFile ==
    /\ pc = "idle"
    /\ \E d \in Docs \cup {NoFile} : disk' = d
    /\ UNCHANGED <<pc, call, contents, config, result, filt, tag>>

\* get_framework_by_config_file(file): one read, then the framework block.
GetFramework ==
    /\ pc = "idle"
    /\ \E file \in FilePaths :
        /\ call' = [op |-> "get_framework", file |-> file]
        /\ result' = Some(get_framework_by_config_file(file, disk))
    /\ contents' = Some(disk)
    /\ pc' = "done"
    /\ UNCHANGED <<disk, config, filt, tag>>

\* get_test_implementations_by_config_file(file), up to its own read of the
\* file: `contents` is what that read returned.
TestsRead ==
    /\ pc = "idle"
    /\ \E file \in FilePaths : call' = [op |-> "get_tests", file |-> file]
    /\ contents' = Some(disk)
    /\ IF disk = NoFile
       THEN /\ result' = Some(Err(IoError))
            /\ pc' = "done"
       ELSE /\ result' = None
            /\ pc' = "read"
    /\ UNCHANGED <<disk, config, filt, tag>>

\* The rest of get_test_implementations_by_config_file: parse_config reads
\* the file again, then the loop builds the tests from `contents`.
TestsParse ==
    /\ pc \in {"read", "rewritten"}
    /\ config' = Some(parse_config(call.file, disk))
    /\ IF config'.val.outcome = "Err"
       THEN result' = Some(config'.val)
       ELSE \E order \in KeyOrders(contents.val) :
               result' = Some(TestsLoop(call.file, config'.val.val,
                                        contents.val, order, 1, <<>>))
    /\ pc' = "done"
    /\ UNCHANGED <<disk, call, contents, filt, tag>>

\* The tests a finished get_tests call returned (none when it failed).
Returned ==
    IF /\ pc = "done"
       /\ call.op = "get_tests"
       /\ result.val.outcome = "Ok"
    THEN result.val.val
    ELSE <<>>

\* The caller applies Test::specify_test_type to the i-th returned test (to
\* the already narrowed test when it narrows the same one again).
SpecifyTestType ==
    \E i \in DOMAIN Returned, test_type \in TestTypes :
        LET cur == IF filt.some /\ filt.val.idx = i
                   THEN filt.val.after
                   ELSE Returned[i]
        IN  /\ filt' = Some([idx |-> i, test_type |-> test_type,
                             again |-> /\ filt.some
                                       /\ filt.val.idx = i
                                       /\ filt.val.test_type = test_type,
                             before |-> cur,
                             after |-> specify_test_type(cur, test_type)])
            /\ UNCHANGED <<disk, pc, call, contents, config, result, tag>>

\* The caller asks the i-th returned test for its tag.
GetTag ==
    \E i \in DOMAIN Returned :
        /\ tag' = Some([idx |-> i, out |-> get_tag(Returned[i])])
        /\ UNCHANGED <<disk, pc, call, contents, config, result, filt>>

\* The caller drops the results of the finished call.
Return ==
    /\ pc = "done"
    /\ pc' = "idle"
    /\ call' = NoCall
    /\ contents' = None
    /\ config' = None
    /\ result' = None
    /\ filt' = None
    /\ tag' = None
    /\ UNCHANGED disk

Next ==
    \/ WriteFile
    \/ GetFramework
    \/ TestsRead
    \/ TestsParse
    \/ SpecifyTestType
    \/ GetTag
    \/ Return

Spec == Init /\ [][Next]_vars

\* -------------------------------------------------- concurrent rewriting

\* Another process replaces the file between the two reads of a get_tests
\* call; nothing in the code locks the file.  Only the last replacement
\* before the second read matters, so one is modelled.
Rewrite ==
    /\ pc = "read"
    /\ \E d \in Docs : disk' = d
    /\ pc' = "rewritten"
    /\ UNCHANGED <<call, contents, config, result, filt, tag>>

RaceNext ==
    \/ TestsRead
    \/ Rewrite
    \/ TestsParse
    \/ Return

RaceSpec == Init /\ [][RaceNext]_vars

\* -------------------------------------------------- language resolution

\* get_language_by_config_file reads no file: its inputs are the call's.
LangInit ==
    /\ disk = NoFile
    /\ pc = "idle"
    /\ call \in {[op |-> "get_language", framework |-> f, file |-> p] :
                    f \in Frameworks, p \in Paths}
    /\ contents = None
    /\ config = None
    /\ result = None
    /\ filt = None
    /\ tag = None

GetLanguage ==
    /\ pc = "idle"
    /\ call.op = "get_language"
    /\ result' = Some(get_language_by_config_file(call.framework, call.file))
    /\ pc' = "done"
    /\ UNCHANGED <<disk, call, contents, config, filt, tag>>

LangNext == GetLanguage

LangSpec == LangInit /\ [][LangNext]_vars

\* ================================================================ claims

\* ---------------------------------------------------------------- helpers

\* A finished call of operation `op`.
Done(op) == pc = "done" /\ call.op = op

\* The positions of the path's components named like the framework,
\* compared in lowercase.
MatchesAt(framework, file) ==
    {i \in DOMAIN file.comps :
        /\ file.comps[i].kind = "normal"
        /\ ToLowercase(file.comps[i].name) = ToLowercase(framework.name)}

\* The leaf-most of them.
LeafMost(S) == CHOOSE i \in S : \A j \in S : j <= i

\* The name a test of block k has under framework name N.
ExpectedName(N, k) ==
    IF k = MainKey THEN ToLowercase(N) ELSE ToLowercase(N) \o <<"-">> \o k

\* A block as written has every required field of Test.
WellFormedBlock(b) ==
    /\ b.urls.some /\ b.approach.some /\ b.classification.some
    /\ b.platform.some /\ b.webserver.some /\ b.os.some /\ b.versus.some

\* The document has a [framework] block with a name.
HasFramework(doc) == doc.framework.some /\ doc.framework.val.name.some

NameOf(doc) == doc.framework.val.name.val

\* ---------------------------------------------------------------- C2

C3_CarriesFrameworkName ==
    (Done("get_language") /\ MatchesAt(call.framework, call.file) = {})
        => result.val = Err(LanguageNotFoundError(call.framework.name, call.file))

\* C3 amended: when no component matches, the call fails with
\* LanguageNotFound carrying the lowercased framework name and the file
\* path, and returns no language.
C3_CarriesLowercasedName ==
    (Done("get_language") /\ MatchesAt(call.framework, call.file) = {})
        => result.val = Err(LanguageNotFoundError(
                                ToLowercase(call.framework.name), call.file))

\* Framework "Gem" was looked for in a path without it; the error names "gem".
C3_Witness ==
    /\ Done("get_language")
    /\ call.framework.name = Gem
    /\ call.file.comps = <<Normal(Java), Normal(cfg)>>
    /\ result.val.outcome = "Err"
    /\ result.val.err.framework = gem

\* ---------------------------------------------------------------- C9

\* C9: every call of get_language_by_config_file ends with a language or
\* with a LanguageNotFound error; it never aborts.
C9_NeverAborts ==
    Done("get_language") =>
        \/ result.val.outcome = "Ok"
        \/ /\ result.val.outcome = "Err"
           /\ result.val.err.kind = "LanguageNotFoundError"

\* ---------------------------------------------------------------- C1

\* The document read has a named framework and only well-formed blocks,
\* `main` among them.
ValidDoc(doc) ==
    /\ doc # NoFile
    /\ HasFramework(doc)
    /\ MainKey \in DOMAIN doc.blocks
    /\ \A k \in DOMAIN doc.blocks : WellFormedBlock(doc.blocks[k])

\* C1: for a document with framework name N, get_tests succeeds when every
\* block is well-formed, and a successful result holds exactly one Test per
\* top-level key other than "framework", named lowercase(N) for "main" and
\* lowercase(N) + "-" + k, k verbatim, for any other key k; no test carries
\* any other name, whatever `name` the blocks themselves hold.
C1_NamesDerivedFromKeys ==
    Done("get_tests") =>
        /\ ValidDoc(contents.val) => result.val.outcome = "Ok"
        /\ result.val.outcome = "Ok" =>
            LET doc == contents.val
                tests == result.val.val
            IN  /\ Len(tests) = Cardinality(DOMAIN doc.blocks)
                /\ \A k \in DOMAIN doc.blocks :
                     Cardinality({i \in DOMAIN tests :
                        tests[i].name = Some(ExpectedName(NameOf(doc), k))}) = 1
                /\ \A i \in DOMAIN tests :
                     \E k \in DOMAIN doc.blocks :
                        tests[i].name = Some(ExpectedName(NameOf(doc), k))

\* Framework "Gem", a `main` block that names itself "x" and a block "Pg":
\* the tests are "gem" and "gem-Pg".
C1_Witness ==
    /\ Done("get_tests")
    /\ result.val.outcome = "Ok"
    /\ NameOf(contents.val) = Gem
    /\ DOMAIN contents.val.blocks = {MainKey, Pg}
    /\ contents.val.blocks[MainKey].name = Some(<<"x">>)
    /\ {result.val.val[i].name : i \in DOMAIN result.val.val}
           = {Some(gem), Some(<<"g", "e", "m", "-", "P", "g">>)}

\* ---------------------------------------------------------------- C4

\* C4: when some top-level block other than "framework" lacks a required
\* Test field, get_tests fails with MalformedConfig (InvalidConfigError)
\* carrying the file's path, and so returns no test, whatever the other
\* blocks and the enumeration order.
C4_BadBlockFailsWholeCall ==
    (/\ Done("get_tests")
     /\ contents.val # NoFile
     /\ \E k \in DOMAIN contents.val.blocks :
            ~WellFormedBlock(contents.val.blocks[k]))
        => result.val = Err(InvalidConfigError(call.file))

\* A good framework and `main`, and a block "pg" without urls: the call failed.
C4_Witness ==
    /\ Done("get_tests")
    /\ contents.val # NoFile
    /\ HasFramework(contents.val)
    /\ DOMAIN contents.val.blocks = {MainKey, pg}
    /\ WellFormedBlock(contents.val.blocks[MainKey])
    /\ ~contents.val.blocks[pg].urls.some
    /\ result.val = Err(InvalidConfigError(call.file))

\* ---------------------------------------------------------------- C6

\* C6: for a document with a framework block named N and a well-formed
\* `main`, get_framework_by_config_file returns the Framework named exactly
\* N, case preserved, with the block's authors and github.
C6_FrameworkNameVerbatim ==
    (/\ Done("get_framework")
     /\ contents.val # NoFile
     /\ HasFramework(contents.val)
     /\ MainKey \in DOMAIN contents.val.blocks
     /\ WellFormedBlock(contents.val.blocks[MainKey]))
        => result.val = Ok([name |-> NameOf(contents.val),
                            authors |-> contents.val.framework.val.authors,
                            github |-> contents.val.framework.val.github])

\* The framework block is named "Gem" and the Framework returned is "Gem".
C6_Witness ==
    /\ Done("get_framework")
    /\ contents.val # NoFile
    /\ HasFramework(contents.val)
    /\ NameOf(contents.val) = Gem
    /\ result.val.outcome = "Ok"
    /\ result.val.val.name = Gem
    /\ result.val.val.authors = Some(<<"ann">>)

\* ---------------------------------------------------------------- C7

\* C7: every Test get_tests returns has a name, and get_tag on it returns
\* "bw.test." followed by that name, without aborting.
C7_TagOfReturnedTest ==
    /\ \A i \in DOMAIN Returned : Returned[i].name.some
    /\ tag.some =>
         tag.val.out = Ok(<<"b", "w", ".", "t", "e", "s", "t", ".">>
                             \o Returned[tag.val.idx].name.val)

\* The test named "gem" has given the tag "bw.test.gem".
C7_Witness ==
    /\ tag.some
    /\ Returned[tag.val.idx].name = Some(gem)
    /\ tag.val.out = Ok(<<"b", "w", ".", "t", "e", "s", "t", ".", "g", "e", "m">>)

\* ---------------------------------------------------------------- C8

\* C8: a successful get_tests result is non-empty, holds the test named
\* lowercase(N) and comes from a document with a well-formed `main` block;
\* a document with a well-formed framework block and only non-`main` blocks
\* fails with MalformedConfig.
C8_MainRequired ==
    Done("get_tests") =>
        /\ result.val.outcome = "Ok" =>
            /\ result.val.val # <<>>
            /\ \E i \in DOMAIN result.val.val :
                 result.val.val[i].name = Some(ToLowercase(NameOf(contents.val)))
            /\ MainKey \in DOMAIN contents.val.blocks
            /\ WellFormedBlock(contents.val.blocks[MainKey])
        /\ (/\ contents.val # NoFile
            /\ HasFramework(contents.val)
            /\ DOMAIN contents.val.blocks # {}
            /\ MainKey \notin DOMAIN contents.val.blocks)
           => result.val = Err(InvalidConfigError(call.file))

\* A good framework block and one well-formed block "pg", no `main`: failed.
C8_Witness ==
    /\ Done("get_tests")
    /\ contents.val # NoFile
    /\ HasFramework(contents.val)
    /\ DOMAIN contents.val.blocks = {pg}
    /\ WellFormedBlock(contents.val.blocks[pg])
    /\ result.val = Err(InvalidConfigError(call.file))

\* ---------------------------------------------------------------- C5

\* The fields of a Test other than urls.
OtherFields ==
    {"name", "approach", "classification", "orm", "platform", "webserver",
     "os", "database_os", "database", "versus", "tags", "dockerfile"}

\* C5: specify_test_type with selector s leaves urls equal to the original
\* map restricted to the key s, with no selector leaves urls unchanged, in
\* both cases changes no other field, and applied again with the same
\* selector changes nothing.
C5_UrlsRestrictedToSelector ==
    filt.some =>
        LET b == filt.val.before
            a == filt.val.after
            s == filt.val.test_type
        IN  /\ s.some =>
                /\ DOMAIN a.urls = DOMAIN b.urls \cap {s.val}
                /\ \A k \in DOMAIN a.urls : a.urls[k] = b.urls[k]
            /\ ~s.some => a.urls = b.urls
            /\ \A f \in OtherFields : a[f] = b[f]
            /\ filt.val.again => a = b

\* A returned test with urls {json, plaintext} was narrowed by "json" and
\* then by "json" again: {json: "/json"} is left.
C5_Witness ==
    /\ filt.some
    /\ filt.val.again
    /\ filt.val.test_type = Some("json")
    /\ DOMAIN Returned[filt.val.idx].urls = {"json", "plaintext"}
    /\ DOMAIN filt.val.after.urls = {"json"}
    /\ filt.val.after.urls["json"] = "/json"

\* ---------------------------------------------------------------- C10

\* The tests are those of the single document `doc`: one per block, built
\* from that block and named after doc's framework.
TestsOfVersion(tests, doc) ==
    /\ doc # NoFile
    /\ HasFramework(doc)
    /\ Len(tests) = Cardinality(DOMAIN doc.blocks)
    /\ \A k \in DOMAIN doc.blocks :
         /\ WellFormedBlock(doc.blocks[k])
         /\ \E i \in DOMAIN tests :
              tests[i] = [DeserializeTest(doc.blocks[k]).val EXCEPT
                             !.name = Some(ExpectedName(NameOf(doc), k))]

\* C10: every successful get_tests result is that of a single version of
\* the file, the one the first read saw or the one the second read saw (the
\* disk is not written after the second read), even when the file is
\* rewritten between the two reads.
C10_SingleVersion ==
    (Done("get_tests") /\ result.val.outcome = "Ok")
        => \/ TestsOfVersion(result.val.val, contents.val)
           \/ TestsOfVersion(result.val.val, disk)

====
